---------------------------- MODULE Spec2Model ----------------------------
(***************************************************************************)
(* A model of the TrialScope aggregation pipeline of src/colab_api.py:     *)
(* the source adapters, deduplicate_trials, classify_with_ai and           *)
(* search_trials, with the properties the specification states of them.    *)
(*                                                                         *)
(* Python values are tagged records, so that a missing key, a JSON null, *)
(* a number and a string stay distinct: a string is a sequence of pieces,  *)
(* each piece a word or a run of whitespace (" ").                         *)
(***************************************************************************)
EXTENDS Integers, Sequences, FiniteSets, TLC

VARIABLES
    \* a call of deduplicate_trials, and a second call on its result
    d_pc, d_in, d_out, d_out2,
    \* a run of search_trials: where it is, its arguments and the keys of the
    \* client (cfg), the registry the loop of line 722 is at (reg), the list
    \* all_trials, and what the run did: the adapters called and the pauses
    \* (log), the number of records each adapter returned (returned), the
    \* adapters whose request failed (failed), all_trials as it was before
    \* deduplicate_trials (agg) and the ids of the records after it (deduped)
    pc, cfg, reg, all_trials, log, returned, failed, agg, deduped,
    \* a call of one other function of the API on its own (a search, the
    \* export): where it is, its arguments and what it answers
    u_pc, u_in, u_out

dedupVars == <<d_pc, d_in, d_out, d_out2>>

pipeVars == <<pc, cfg, reg, all_trials, log, returned, failed, agg, deduped>>

unitVars == <<u_pc, u_in, u_out>>

vars == <<dedupVars, pipeVars, unitVars>>

(***************************************************************************)
(* Bounds of the model.                                                    *)
(***************************************************************************)
\* the longest input sequence handed to deduplicate_trials
MaxLen == 3

\* the most items one response of ClinicalTrials.gov or Google Scholar holds
MaxItems == 3

\* the most identifiers one PubMed id search returns
MaxIds == 1

\* the most adapters whose request fails in one run
MaxFaults == 1

\* the number of replies after which the reasoning service repeats itself
PatternLen == 2

\* the longest list classified and ranked on its own
MaxScored == 4

\* the largest max_results a search is called with on its own
MaxAsked == 2

\* the longest list whose trials have each a reply of their own
MaxBatch == 3

\* the length of the long list classified on its own
LongBatch == 11

(***************************************************************************)
(* Python values.                                                          *)
(***************************************************************************)
PyStr(s) == [t |-> "str", n |-> 0, s |-> s]

PyInt(n) == [t |-> "int", n |-> n, s |-> <<>>]

\* None (a JSON null)
PyNone == [t |-> "none", n |-> 0, s |-> <<>>]

\* the key is not in the dict
PyAbsent == [t |-> "absent", n |-> 0, s |-> <<>>]

\* dict.get(key, default): the default only when the key is missing
Get(v, default) == IF v.t = "absent" THEN default ELSE v

\* the truth value Python gives a value (if abstract / if not key)
Truthy(v) ==
    CASE v.t = "str" -> v.s # <<>>
      [] v.t = "int" -> v.n # 0
      [] OTHER -> FALSE

Max2(a, b) == IF a >= b THEN a ELSE b

Min2(a, b) == IF a <= b THEN a ELSE b

(***************************************************************************)
(* Strings: str.lower, str.strip, str.split.                               *)
(***************************************************************************)
IsSpace(p) == p = " "

\* str.lower on one word
LowerWord(w) ==
    CASE w = "Diabetes" -> "diabetes"
      [] w = "DIABETES" -> "diabetes"
      [] w = "Treatment" -> "treatment"
      [] w = "Study" -> "study"
      [] w = "Phase" -> "phase"
      [] w = "Two" -> "two"
      [] w = "Three" -> "three"
      [] w = "Trial" -> "trial"
      [] w = "Trial:" -> "trial:"
      [] w = "No" -> "no"
      [] w = "WHO" -> "who"
      [] w = "ICTRP" -> "ictrp"
      [] w = "Global" -> "global"
      [] w = "Research" -> "research"
      [] w = "EU" -> "eu"
      [] w = "CTIS" -> "ctis"
      [] w = "Clinical" -> "clinical"
      [] w = "ISRCTN" -> "isrctn"
      [] w = "ANZCTR" -> "anzctr"
      [] w = "CTRI" -> "ctri"
      [] w = "India:" -> "india:"
      [] w = "PubMed" -> "pubmed"
      [] w = "Article" -> "article"
      [] w = "(PMID:" -> "(pmid:"
      [] OTHER -> w

\* str.lower
RECURSIVE Lower(_)
Lower(s) == IF s = <<>> THEN <<>> ELSE <<LowerWord(Head(s))>> \o Lower(Tail(s))

RECURSIVE LStrip(_)
LStrip(s) == IF s # <<>> /\ IsSpace(Head(s)) THEN LStrip(Tail(s)) ELSE s

RECURSIVE RStrip(_)
RStrip(s) ==
    IF s # <<>> /\ IsSpace(s[Len(s)]) THEN RStrip(SubSeq(s, 1, Len(s) - 1)) ELSE s

Strip(s) == RStrip(LStrip(s))

\* s.split(): the whitespace-delimited tokens in order; a token is the run of
\* pieces between two whitespaces (pieces that touch are one word)
RECURSIVE SplitFrom(_, _, _)
SplitFrom(s, i, cur) ==
    IF i > Len(s) THEN (IF cur = <<>> THEN <<>> ELSE <<cur>>)
    ELSE IF IsSpace(s[i])
         THEN (IF cur = <<>> THEN <<>> ELSE <<cur>>) \o SplitFrom(s, i + 1, <<>>)
         ELSE SplitFrom(s, i + 1, Append(cur, s[i]))

Split(s) == SplitFrom(s, 1, <<>>)

\* set(s.split())
SplitSet(s) == LET tokens == Split(s) IN {tokens[i] : i \in 1..Len(tokens)}

\* str(v) inside an f-string, as pieces
Format(v) ==
    CASE v.t = "str" -> v.s
      [] v.t = "int" -> <<ToString(v.n)>>
      [] OTHER -> <<"None">>

\* s.replace(" ", "")
RemoveSpaces(s) ==
    LET keep == {i \in 1..Len(s) : ~IsSpace(s[i])}
        RECURSIVE Pick(_)
        Pick(i) == IF i > Len(s) THEN <<>>
                   ELSE (IF i \in keep THEN <<s[i]>> ELSE <<>>) \o Pick(i + 1)
    IN Pick(1)

(***************************************************************************)
(* A trial is a dict; the model keeps the keys the pipeline reads.  id is  *)
(* not a key of the dict: it names the dict object (its place in the list  *)
(* it was first put in), so that a record can be followed through the      *)
(* pipeline.                                                               *)
(***************************************************************************)
MkTrial(id, title, url, source) ==
    [id |-> id, title |-> title, url |-> url, source |-> source,
     ai_score |-> PyAbsent, ai_classification |-> PyAbsent,
     confidence |-> PyAbsent]

(***************************************************************************)
(* deduplicate_trials.                                                     *)
(***************************************************************************)
\* the comparison with the threshold made inclusive (overlap >= 0.8)
IsDuplicateOfInclusive(title_words, seen_words) ==
    10 * Cardinality(title_words \cap seen_words)
        >= 8 * Max2(Max2(Cardinality(title_words), Cardinality(seen_words)), 1)

\* the comparison with the threshold at one half (overlap > 0.5)
IsDuplicateOfHalf(title_words, seen_words) ==
    2 * Cardinality(title_words \cap seen_words)
        > Max2(Max2(Cardinality(title_words), Cardinality(seen_words)), 1)

\* the comparison that takes two equal token sets, empty ones too, for
\* duplicates
IsDuplicateOfOrEqual(title_words, seen_words) ==
    \/ title_words = seen_words
    \/ 10 * Cardinality(title_words \cap seen_words)
          > 8 * Max2(Max2(Cardinality(title_words), Cardinality(seen_words)), 1)

\* overlap > 0.8, overlap = |A & B| / max(|A|, |B|, 1).  The quotient of two
\* small naturals rounds to a double above the double 0.8 exactly when it is
\* above 4/5, so the comparison is done in integers.
IsDuplicateOf(title_words, seen_words) ==
    10 * Cardinality(title_words \cap seen_words)
        > 8 * Max2(Max2(Cardinality(title_words), Cardinality(seen_words)), 1)

\* the lists of the loop: unique_trials and seen_titles, and with each seen
\* title its set(seen_title.split()) of line 784 (seen_words)
DedupInit ==
    [unique_trials |-> <<>>, seen_titles |-> {}, seen_words |-> {}, raised |-> FALSE]

\* the ids of the records of a list, in order
Ids(trials) == [k \in 1..Len(trials) |-> trials[k].id]

\* a normal title that takes in the source of the trial
NormalTitleWithSource(trial) ==
    LET raw == Get(trial.title, PyStr(<<>>))
        source == Get(trial.source, PyStr(<<>>))
    IN IF raw.t = "str"
       THEN PyStr(Strip(Lower(raw.s \o <<" ">> \o source.s)))
       ELSE PyNone

\* line 777: None when the title is no string (.lower() raises AttributeError)
NormalTitle(trial) ==
    LET raw == Get(trial.title, PyStr(<<>>))
    IN IF raw.t = "str" THEN PyStr(Strip(Lower(raw.s))) ELSE PyNone

\* lines 781-789
IsDuplicate(title_words, seen_words) ==
    \E words \in seen_words : IsDuplicateOf(title_words, words)

\* a turn that remembers the title it saw last, accepted or not, and no other
DedupStepLastSeen(st, trial) ==
    LET title == NormalTitle(trial)
        title_words == SplitSet(title.s)
    IN IF title.t # "str" THEN [st EXCEPT !.raised = TRUE]
       ELSE IF IsDuplicate(title_words, st.seen_words)
            THEN [st EXCEPT !.seen_titles = {title.s},
                            !.seen_words = {title_words}]
            ELSE [st EXCEPT !.unique_trials = Append(@, trial),
                            !.seen_titles = {title.s},
                            !.seen_words = {title_words}]

\* a turn that puts an accepted record in front of the others
DedupStepPrepend(st, trial) ==
    LET title == NormalTitle(trial)
        title_words == SplitSet(title.s)
    IN IF title.t # "str" THEN [st EXCEPT !.raised = TRUE]
       ELSE IF IsDuplicate(title_words, st.seen_words) THEN st
            ELSE [st EXCEPT !.unique_trials = <<trial>> \o @,
                            !.seen_titles = @ \cup {title.s},
                            !.seen_words = @ \cup {title_words}]

\* a turn that keeps the later of two duplicates: the record replaces the
\* accepted records it is a duplicate of
DedupStepKeepLater(st, trial) ==
    LET title == NormalTitle(trial)
        title_words == SplitSet(title.s)
        Other(t) == ~IsDuplicateOf(title_words, SplitSet(NormalTitle(t).s))
    IN IF title.t # "str" THEN [st EXCEPT !.raised = TRUE]
       ELSE [st EXCEPT !.unique_trials = Append(SelectSeq(@, Other), trial),
                       !.seen_titles = @ \cup {title.s},
                       !.seen_words = {w \in @ : ~IsDuplicateOf(title_words, w)}
                                      \cup {title_words}]

\* a turn that remembers every title it saw, of a discarded record too
DedupStepSeeAll(st, trial) ==
    LET title == NormalTitle(trial)
        title_words == SplitSet(title.s)
    IN IF title.t # "str" THEN [st EXCEPT !.raised = TRUE]
       ELSE IF IsDuplicate(title_words, st.seen_words)
            THEN [st EXCEPT !.seen_titles = @ \cup {title.s},
                            !.seen_words = @ \cup {title_words}]
            ELSE [st EXCEPT !.unique_trials = Append(@, trial),
                            !.seen_titles = @ \cup {title.s},
                            !.seen_words = @ \cup {title_words}]

\* one turn of the loop over trials (lines 776-793); raised: the exception of
\* line 777
DedupStep(st, trial) ==
    LET title == NormalTitle(trial)
        title_words == SplitSet(title.s)
    IN IF title.t # "str" THEN [st EXCEPT !.raised = TRUE]
       ELSE IF IsDuplicate(title_words, st.seen_words) THEN st
            ELSE [st EXCEPT !.unique_trials = Append(@, trial),
                            !.seen_titles = @ \cup {title.s},
                            !.seen_words = @ \cup {title_words}]

RECURSIVE DedupLoop(_, _, _)
DedupLoop(trials, i, st) ==
    IF i > Len(trials) \/ st.raised THEN st
    ELSE DedupLoop(trials, i + 1, DedupStep(st, trials[i]))

\* deduplicate_trials(trials): [raised, out]
DeduplicateTrials(trials) ==
    IF trials = <<>> THEN [raised |-> FALSE, out |-> trials]
    ELSE LET st == DedupLoop(trials, 1, DedupInit)
         IN [raised |-> st.raised,
             out |-> IF st.raised THEN <<>> ELSE st.unique_trials]

(***************************************************************************)
(* The inputs of the deduplication check: sequences of at most MaxLen      *)
(* trials whose titles are drawn from DedupTitles.                         *)
(***************************************************************************)
TitlePhaseTwo ==
    PyStr(<<"Diabetes", " ", "Treatment", " ", "Study", " ", "Phase", " ", "Two">>)

TitlePhaseThree ==
    PyStr(<<"Diabetes", " ", "Treatment", " ", "Study", " ", "Phase", " ", "Three">>)

TitlePhaseTwoTrial ==
    PyStr(<<"Diabetes", " ", "Treatment", " ", "Study", " ", "Phase", " ", "Two",
            " ", "Trial">>)

TitlePhaseTrial ==
    PyStr(<<"diabetes", " ", "treatment", " ", "study", " ", "phase", " ", "trial">>)

TitleUpper ==
    PyStr(<<" ", "DIABETES", " ", "treatment", " ", "study", " ", "phase", " ",
            "two", " ">>)

TitleBlank == PyStr(<<" ", " ">>)

DedupTitles ==
    {TitlePhaseTwo, TitlePhaseThree, TitlePhaseTwoTrial, TitlePhaseTrial,
     TitleUpper, TitleBlank, PyStr(<<>>), PyAbsent, PyNone}

SourceNames == <<"ClinicalTrials.gov", "Google Scholar", "PubMed">>

\* the trials of an input: trial i has the i-th title, its own url and a source
DedupInput(titles) ==
    [i \in 1..Len(titles) |->
        MkTrial(i, titles[i], PyStr(<<"https://example.org/", ToString(i)>>),
                PyStr(<<SourceNames[((i - 1) % 3) + 1]>>))]

SeqsUpTo(S, n) == UNION {[1..k -> S] : k \in 0..n}

NoResult == [raised |-> FALSE, out |-> <<>>]

\* no run of search_trials
PipeIdle ==
    /\ pc = "idle"
    /\ cfg = [query |-> <<>>, max_results |-> 0]
    /\ reg = 0
    /\ all_trials = <<>>
    /\ log = <<>>
    /\ returned = <<>>
    /\ failed = {}
    /\ agg = <<>>
    /\ deduped = <<>>

\* no call of deduplicate_trials on its own
DedupIdle ==
    /\ d_pc = "idle"
    /\ d_in = <<>>
    /\ d_out = NoResult
    /\ d_out2 = NoResult

\* no call of another function on its own
UnitIdle ==
    /\ u_pc = "idle"
    /\ u_in = <<>>
    /\ u_out = NoResult

InitDedup ==
    /\ d_pc = "start"
    /\ d_in \in {DedupInput(ts) : ts \in SeqsUpTo(DedupTitles, MaxLen)}
    /\ d_out = NoResult
    /\ d_out2 = NoResult
    /\ PipeIdle
    /\ UnitIdle

\* deduplicate_trials(x)
DedupOnce ==
    /\ d_pc = "start"
    /\ d_out' = DeduplicateTrials(d_in)
    /\ d_pc' = "once"
    /\ UNCHANGED <<d_in, d_out2, pipeVars, unitVars>>

\* deduplicate_trials of the list the first call returned
DedupAgain ==
    /\ d_pc = "once"
    /\ ~d_out.raised
    /\ d_out2' = DeduplicateTrials(d_out.out)
    /\ d_pc' = "twice"
    /\ UNCHANGED <<d_in, d_out, pipeVars, unitVars>>

NextDedup == DedupOnce \/ DedupAgain

SpecDedup == InitDedup /\ [][NextDedup]_vars

(***************************************************************************)
(* The source adapters.  An adapter is given what its source answered and  *)
(* returns the list of trials it made of it; a trial gets its id when      *)
(* search_trials puts it in all_trials.                                    *)
(***************************************************************************)
NoTitle == PyStr(<<"No", " ", "title">>)

NA == PyStr(<<"N/A">>)

\* one study of a ClinicalTrials.gov response: the values of the keys read
\* from its identificationModule, or malformed (a study or a module that is
\* not an object, so that a lookup in it raises)
Study(briefTitle, officialTitle, nctId) ==
    [malformed |-> FALSE, briefTitle |-> briefTitle,
     officialTitle |-> officialTitle, nctId |-> nctId]

MalformedStudy ==
    [malformed |-> TRUE, briefTitle |-> PyAbsent, officialTitle |-> PyAbsent,
     nctId |-> PyAbsent]

\* line 206
TitleOfStudy(study) == Get(study.briefTitle, Get(study.officialTitle, NoTitle))

\* lines 205-237: the trial made of one study
ProcessStudy(study) ==
    LET nct_id == Get(study.nctId, NA)
        url == IF nct_id # NA
               THEN PyStr(<<"https://clinicaltrials.gov/study/">> \o Format(nct_id))
               ELSE NA
    IN MkTrial(0, TitleOfStudy(study), url, PyStr(<<"ClinicalTrials.gov">>))

\* a loop over the studies that a study whose processing raises ends
RECURSIVE ProcessStudiesUntilError(_)
ProcessStudiesUntilError(studies) ==
    IF studies = <<>> \/ Head(studies).malformed THEN <<>>
    ELSE <<ProcessStudy(Head(studies))>> \o ProcessStudiesUntilError(Tail(studies))

\* lines 192-243: a study whose processing raises is skipped
RECURSIVE ProcessStudies(_)
ProcessStudies(studies) ==
    IF studies = <<>> THEN <<>>
    ELSE (IF Head(studies).malformed THEN <<>> ELSE <<ProcessStudy(Head(studies))>>)
         \o ProcessStudies(Tail(studies))

\* search_clinicaltrials_gov: resp.fail is a request that raised, timed out,
\* answered with an error status or with no JSON
SearchClinicalTrialsGov(resp) ==
    IF resp.fail THEN <<>> ELSE ProcessStudies(resp.studies)

\* one organic result of a Google Scholar response
ScholarResult(title, link) == [malformed |-> FALSE, title |-> title, link |-> link]

MalformedResult == [malformed |-> TRUE, title |-> PyAbsent, link |-> PyAbsent]

\* lines 291-299
ProcessResult(result) ==
    MkTrial(0, Get(result.title, NoTitle), Get(result.link, NA),
            PyStr(<<"Google Scholar">>))

RECURSIVE ProcessResults(_)
ProcessResults(results) ==
    IF results = <<>> THEN <<>>
    ELSE (IF Head(results).malformed THEN <<>> ELSE <<ProcessResult(Head(results))>>)
         \o ProcessResults(Tail(results))

\* search_google_scholar: no request without a SerpAPI key
SearchGoogleScholar(serpapi_key, resp) ==
    IF ~serpapi_key THEN <<>>
    ELSE IF resp.fail THEN <<>> ELSE ProcessResults(resp.results)

\* s[:n]
SliceTo(s, n) ==
    IF n >= 0 THEN SubSeq(s, 1, Min2(n, Len(s)))
    ELSE SubSeq(s, 1, Max2(Len(s) + n, 0))

\* search_pubmed_related: the id search, then one fetch of all the ids
SearchPubmedRelated(max_results, resp) ==
    IF resp.search_fail THEN <<>>
    ELSE IF resp.idlist = <<>> THEN <<>>
    ELSE IF resp.fetch_fail THEN <<>>
    ELSE LET pmids == SliceTo(resp.idlist, max_results)
         IN [k \in 1..Len(pmids) |->
                MkTrial(0,
                        PyStr(<<"PubMed", " ", "Research", " ", "Article", " ",
                                "(PMID:", " ", pmids[k], ")">>),
                        PyStr(<<"https://pubmed.ncbi.nlm.nih.gov/", pmids[k], "/">>),
                        PyStr(<<"PubMed">>))]

\* the registries whose search is simulated: range(min(max_results, cap))
SearchWhoIctrp(query, max_results, fail) ==
    IF fail THEN <<>>
    ELSE [i \in 1..Min2(max_results, 15) |->
            MkTrial(0,
                    PyStr(<<"WHO", " ", "ICTRP", " ", "Global", " ", "Trial:", " ">>
                          \o query \o <<" ", "Research", " ", ToString(i)>>),
                    PyStr(<<"https://trialsearch.who.int/Trial2.aspx?TrialID=">>
                          \o RemoveSpaces(query) \o <<ToString(i)>>),
                    PyStr(<<"WHO ICTRP">>))]

\* search_eu_ctis issues no request
SearchEuCtis(query, max_results) ==
    [i \in 1..Min2(max_results, 12) |->
        MkTrial(0,
                PyStr(<<"EU", " ", "CTIS", " ", "Clinical", " ", "Trial:", " ">>
                      \o query \o <<" ", "Study", " ", ToString(i)>>),
                PyStr(<<"https://euclinicaltrials.eu/ctis-public/view/",
                        ToString(2020000000 + i - 1)>>),
                PyStr(<<"EU CTIS">>))]

\* a search that goes on after its request failed
SearchIsrctnUnchecked(query, max_results, fail) ==
    [i \in 1..Min2(max_results, 10) |->
        MkTrial(0,
                PyStr(<<"ISRCTN", " ", "Clinical", " ", "Trial", " ", ToString(i)>>),
                PyStr(<<"https://www.isrctn.com/ISRCTN", ToString(i)>>),
                PyStr(<<"ISRCTN Registry">>))]

SearchIsrctnRegistry(query, max_results, fail) ==
    IF fail THEN <<>>
    ELSE [i \in 1..Min2(max_results, 10) |->
            MkTrial(0,
                    PyStr(<<"ISRCTN", " ", "Clinical", " ", "Trial", " ", ToString(i)>>),
                    PyStr(<<IF i < 10 THEN "https://www.isrctn.com/ISRCTN0000000"
                                      ELSE "https://www.isrctn.com/ISRCTN000000",
                            ToString(i)>>),
                    PyStr(<<"ISRCTN Registry">>))]

SearchAnzctrRegistry(query, max_results, fail) ==
    IF fail THEN <<>>
    ELSE [i \in 1..Min2(max_results, 8) |->
            MkTrial(0,
                    PyStr(<<"ANZCTR", " ", "Clinical", " ", "Trial:", " ">>
                          \o query \o <<" ", "Study", " ", ToString(i)>>),
                    PyStr(<<"https://www.anzctr.org.au/Trial/Registration/TrialReview.aspx?ACTRN=1262000000000",
                            ToString(i - 1)>>),
                    PyStr(<<"ANZCTR">>))]

\* search_ctri_india issues no request
SearchCtriIndia(query, max_results) ==
    [i \in 1..Min2(max_results, 10) |->
        MkTrial(0,
                PyStr(<<"CTRI", " ", "India:", " ">> \o query
                      \o <<" ", "Clinical", " ", "Study", " ", ToString(i)>>),
                PyStr(<<"http://ctri.nic.in/Clinicaltrials/pmaindet2.php?trialid=",
                        ToString(2024000000 + i - 1)>>),
                PyStr(<<"CTRI India">>))]

(***************************************************************************)
(* classify_with_ai.  The reasoning service is what it answers: whether    *)
(* the client can be made, and its reply to each call.                     *)
(***************************************************************************)
\* a reply: the call raised ("error"), the text holds no JSON object that
\* parses ("nojson"), or the keys of the object it holds ("json")
ReplyError ==
    [kind |-> "error", relevance_score |-> PyAbsent, classification |-> PyAbsent,
     confidence |-> PyAbsent]

ReplyNoJson ==
    [kind |-> "nojson", relevance_score |-> PyAbsent, classification |-> PyAbsent,
     confidence |-> PyAbsent]

ReplyJson(relevance_score, classification, confidence) ==
    [kind |-> "json", relevance_score |-> relevance_score,
     classification |-> classification, confidence |-> confidence]

Relevant == PyStr(<<"Relevant">>)

SetRelevance(trial, score, classification, confidence) ==
    [trial EXCEPT !.ai_score = score, !.ai_classification = classification,
                  !.confidence = confidence]

\* the values of the classifier that could not read its reply, for every trial
ClassifyUnread(trial) == SetRelevance(trial, PyInt(75), Relevant, PyInt(70))

\* lines 602-605: no key
ClassifyDefault(trial) == SetRelevance(trial, PyInt(75), Relevant, PyInt(75))

\* a classifier that leaves the trial of a call that raised as it is
ClassifyOneOrSkip(trial, reply) ==
    CASE reply.kind = "error" -> trial
      [] reply.kind = "nojson" ->
            SetRelevance(trial, PyInt(75), Relevant, PyInt(70))
      [] OTHER ->
            SetRelevance(trial, Get(reply.relevance_score, PyInt(75)),
                         Get(reply.classification, Relevant),
                         Get(reply.confidence, PyInt(75)))

\* a classifier that gives the values of the run without key to the trial
\* whose reply it cannot read
ClassifyOneUnreadDefault(trial, reply) ==
    CASE reply.kind = "error" ->
            SetRelevance(trial, PyInt(70), Relevant, PyInt(65))
      [] reply.kind = "nojson" -> ClassifyDefault(trial)
      [] OTHER ->
            SetRelevance(trial, Get(reply.relevance_score, PyInt(75)),
                         Get(reply.classification, Relevant),
                         Get(reply.confidence, PyInt(75)))

\* a classifier that gives the values of the run without key to the trial
\* whose call raised
ClassifyOneErrorDefault(trial, reply) ==
    CASE reply.kind = "error" -> ClassifyDefault(trial)
      [] reply.kind = "nojson" ->
            SetRelevance(trial, PyInt(75), Relevant, PyInt(70))
      [] OTHER ->
            SetRelevance(trial, Get(reply.relevance_score, PyInt(75)),
                         Get(reply.classification, Relevant),
                         Get(reply.confidence, PyInt(75)))

\* lines 631-668: one trial, given the reply to its call
ClassifyOne(trial, reply) ==
    CASE reply.kind = "error" ->
            SetRelevance(trial, PyInt(70), Relevant, PyInt(65))
      [] reply.kind = "nojson" ->
            SetRelevance(trial, PyInt(75), Relevant, PyInt(70))
      [] OTHER ->
            SetRelevance(trial, Get(reply.relevance_score, PyInt(75)),
                         Get(reply.classification, Relevant),
                         Get(reply.confidence, PyInt(75)))

\* the reply to the call made for the i-th trial (from 1)
ReplyAt(service, i) == service.pattern[((i - 1) % Len(service.pattern)) + 1]

\* classify_with_ai(trials, query)
ClassifyWithAI(trials, anthropic_api_key, service) ==
    IF ~anthropic_api_key
    THEN [i \in 1..Len(trials) |-> ClassifyDefault(trials[i])]
    ELSE IF ~service.client_ok
         THEN [i \in 1..Len(trials) |->
                  SetRelevance(trials[i], PyInt(75), Relevant, PyInt(70))]
         ELSE [i \in 1..Len(trials) |-> ClassifyOne(trials[i], ReplyAt(service, i))]

(***************************************************************************)
(* The ranking: all_trials.sort(key=ai_score or 0, reverse=True).          *)
(***************************************************************************)
SortKey(trial) == Get(trial.ai_score, PyInt(0))

\* the order of the strings a score may be
StrRank(s) ==
    CASE s = <<"high">> -> 1
      [] s = <<"low">> -> 2
      [] OTHER -> 0

\* a < b is defined between two ints and between two strings
Comparable(a, b) == a.t = b.t /\ a.t \in {"int", "str"}

KeyLess(a, b) == IF a.t = "int" THEN a.n < b.n ELSE StrRank(a.s) < StrRank(b.s)

\* an insertion that puts a record before the records of equal key
InsertDescUnstable(sorted, x) ==
    LET before == {i \in 1..Len(sorted) : KeyLess(SortKey(x), SortKey(sorted[i]))}
        n == Cardinality(before)
    IN SubSeq(sorted, 1, n) \o <<x>> \o SubSeq(sorted, n + 1, Len(sorted))

\* x put into a list sorted by key descending, after the records of equal key
InsertDesc(sorted, x) ==
    LET before == {i \in 1..Len(sorted) : ~KeyLess(SortKey(sorted[i]), SortKey(x))}
        n == Cardinality(before)
    IN SubSeq(sorted, 1, n) \o <<x>> \o SubSeq(sorted, n + 1, Len(sorted))

RECURSIVE SortDescFrom(_, _, _)
SortDescFrom(trials, i, sorted) ==
    IF i > Len(trials) THEN sorted
    ELSE SortDescFrom(trials, i + 1, InsertDesc(sorted, trials[i]))

\* list.sort compares every record of a list of two or more with another one,
\* and raises TypeError when it meets two keys it cannot compare
SortRaises(trials) ==
    /\ Len(trials) >= 2
    /\ \E i, j \in 1..Len(trials) :
          i # j /\ ~Comparable(SortKey(trials[i]), SortKey(trials[j]))

\* line 755: [raised, out]
SortByScore(trials) ==
    IF SortRaises(trials) THEN [raised |-> TRUE, out |-> trials]
    ELSE [raised |-> FALSE, out |-> SortDescFrom(trials, 1, <<>>)]

(***************************************************************************)
(* search_trials.  What the sources and the reasoning service answer is    *)
(* chosen when they are called.                                            *)
(***************************************************************************)
\* the runs of at most n successive items of a list
SlicesUpTo(list, n) ==
    {<<>>} \cup {SubSeq(list, i, j) :
                    <<i, j>> \in {ij \in (1..Len(list)) \X (1..Len(list)) :
                                    ij[1] <= ij[2] /\ ij[2] - ij[1] < n}}

\* the studies ClinicalTrials.gov may answer with
CTGovStudies ==
    <<Study(PyAbsent, PyAbsent, PyAbsent),
      Study(PyAbsent, TitlePhaseThree, PyStr(<<"NCT03">>)),
      Study(TitlePhaseTwo, PyAbsent, PyStr(<<"NCT01">>)),
      Study(TitlePhaseTwoTrial, TitlePhaseTwo, PyStr(<<"NCT02">>)),
      Study(PyNone, TitlePhaseThree, PyNone),
      MalformedStudy>>

CTGovResponses ==
    {[fail |-> TRUE, studies |-> <<>>]}
    \cup {[fail |-> FALSE, studies |-> ss] : ss \in SlicesUpTo(CTGovStudies, MaxItems)}

\* the results Google Scholar may answer with
ScholarResults ==
    <<ScholarResult(TitlePhaseTrial, PyStr(<<"https://doi.org/1">>)),
      ScholarResult(PyAbsent, PyAbsent),
      ScholarResult(PyStr(<<"Diabetes", " ", "Trial">>), PyNone),
      MalformedResult>>

ScholarResponses ==
    {[fail |-> TRUE, results |-> <<>>]}
    \cup {[fail |-> FALSE, results |-> rs] : rs \in SlicesUpTo(ScholarResults, MaxItems)}

Pmids == <<"101", "102", "103", "104", "105", "106">>

PubmedResponses ==
    {[search_fail |-> TRUE, fetch_fail |-> FALSE, idlist |-> <<>>],
     [search_fail |-> FALSE, fetch_fail |-> TRUE, idlist |-> <<"101">>]}
    \cup {[search_fail |-> FALSE, fetch_fail |-> FALSE, idlist |-> SubSeq(Pmids, 1, n)] :
            n \in 0..Min2(MaxIds, Len(Pmids))}

\* the replies of the reasoning service
Replies ==
    {ReplyError, ReplyNoJson,
     ReplyJson(PyInt(90), PyStr(<<"Highly Relevant">>), PyInt(85)),
     ReplyJson(PyAbsent, PyAbsent, PyAbsent),
     ReplyJson(PyInt(150), PyStr(<<"Highly Relevant">>), PyInt(100)),
     ReplyJson(PyStr(<<"high">>), Relevant, PyNone)}

\* the client cannot be made (the import or the constructor raises)
NoService == [client_ok |-> FALSE, pattern |-> <<>>]

\* the service answers the calls in turn with the replies of a pattern of n
Services(n) ==
    {NoService}
    \cup {[client_ok |-> TRUE, pattern |-> pt] : pt \in [1..n -> Replies]}

Configs ==
    {c \in [query : {<<"diabetes">>},
            max_results : {30},
            include_academic : BOOLEAN,
            include_international : BOOLEAN,
            use_ai_classification : BOOLEAN,
            anthropic_api_key : BOOLEAN,
            serpapi_key : BOOLEAN] :
        \* a key the run never reads is left unset
        /\ c.serpapi_key => c.include_academic
        /\ c.anthropic_api_key => c.use_ai_classification}

Init ==
    /\ pc = "ctgov"
    /\ cfg \in Configs
    /\ reg = 1
    /\ all_trials = <<>>
    /\ log = <<>>
    /\ returned = <<>>
    /\ failed = {}
    /\ agg = <<>>
    /\ deduped = <<>>
    /\ DedupIdle
    /\ UnitIdle

\* line 702
results_per_source == Max2(cfg.max_results \div 8, 5)

\* all_trials = the records of the call alone
ExtendReplace(trials, recs) ==
    [k \in 1..Len(recs) |-> [recs[k] EXCEPT !.id = k]]

\* the records of a call put in front of the records of the calls before it
ExtendFront(trials, recs) ==
    [k \in 1..Len(recs) |-> [recs[k] EXCEPT !.id = Len(trials) + k]] \o trials

\* all_trials.extend(recs): the records get their place as id
Extend(trials, recs) ==
    trials \o [k \in 1..Len(recs) |-> [recs[k] EXCEPT !.id = Len(trials) + k]]

\* a request may fail while the run has faults left
MayFail(fail) == fail => Cardinality(failed) < MaxFaults

\* what an adapter call leaves: the records, the log, the counts
Called(name, recs, fail, pause) ==
    /\ all_trials' = Extend(all_trials, recs)
    /\ log' = log \o <<name>> \o pause
    /\ returned' = Append(returned, [adapter |-> name, count |-> Len(recs)])
    /\ failed' = IF fail THEN failed \cup {name} ELSE failed

AfterRegistries == IF cfg.include_academic THEN "pubmed" ELSE "dedup"

AfterPrimary == IF cfg.include_international THEN "registries" ELSE AfterRegistries

\* lines 705-710
CallClinicalTrialsGov ==
    /\ pc = "ctgov"
    /\ \E resp \in CTGovResponses :
          /\ MayFail(resp.fail)
          /\ Called("ClinicalTrials.gov", SearchClinicalTrialsGov(resp), resp.fail, <<>>)
    /\ pc' = AfterPrimary
    /\ UNCHANGED <<cfg, reg, agg, deduped, dedupVars, unitVars>>

\* line 714, in order
RegistrySearches == <<"WHO ICTRP", "EU CTIS", "ISRCTN", "ANZCTR", "CTRI India">>

\* the registry searches that issue a request
RequestingRegistries == {"WHO ICTRP", "ISRCTN", "ANZCTR"}

RegistrySearch(name, query, max_results, fail) ==
    CASE name = "WHO ICTRP" -> SearchWhoIctrp(query, max_results, fail)
      [] name = "EU CTIS" -> SearchEuCtis(query, max_results)
      [] name = "ISRCTN" -> SearchIsrctnRegistry(query, max_results, fail)
      [] name = "ANZCTR" -> SearchAnzctrRegistry(query, max_results, fail)
      [] OTHER -> SearchCtriIndia(query, max_results)

\* lines 722-729: one turn of the loop over the registries
CallRegistry ==
    /\ pc = "registries"
    /\ \E fail \in BOOLEAN :
          /\ fail => RegistrySearches[reg] \in RequestingRegistries
          /\ MayFail(fail)
          /\ Called(RegistrySearches[reg],
                    RegistrySearch(RegistrySearches[reg], cfg.query,
                                   results_per_source, fail),
                    fail, <<"sleep 0.5">>)
    /\ IF reg < Len(RegistrySearches)
       THEN reg' = reg + 1 /\ pc' = pc
       ELSE reg' = reg /\ pc' = AfterRegistries
    /\ UNCHANGED <<cfg, agg, deduped, dedupVars, unitVars>>

\* lines 733-738
CallPubmed ==
    /\ pc = "pubmed"
    /\ \E resp \in PubmedResponses :
          /\ MayFail(resp.search_fail \/ resp.fetch_fail)
          /\ Called("PubMed", SearchPubmedRelated(results_per_source, resp),
                    resp.search_fail \/ resp.fetch_fail, <<>>)
    /\ pc' = "scholar"
    /\ UNCHANGED <<cfg, reg, agg, deduped, dedupVars, unitVars>>

\* lines 740-745
CallGoogleScholar ==
    /\ pc = "scholar"
    /\ \E resp \in IF cfg.serpapi_key THEN ScholarResponses
                   ELSE {[fail |-> FALSE, results |-> <<>>]} :
          /\ MayFail(resp.fail)
          /\ Called("Google Scholar", SearchGoogleScholar(cfg.serpapi_key, resp),
                    resp.fail, <<>>)
    /\ pc' = "dedup"
    /\ UNCHANGED <<cfg, reg, agg, deduped, dedupVars, unitVars>>

\* line 748; an exception of deduplicate_trials leaves search_trials
Deduplicate ==
    /\ pc = "dedup"
    /\ agg' = all_trials
    /\ LET r == DeduplicateTrials(all_trials)
       IN IF r.raised
          THEN pc' = "raised" /\ UNCHANGED <<all_trials, deduped>>
          ELSE pc' = "classify" /\ all_trials' = r.out /\ deduped' = Ids(r.out)
    /\ UNCHANGED <<cfg, reg, log, returned, failed, dedupVars, unitVars>>

\* lines 751-752, with a service that repeats itself after n replies
Classify(n) ==
    /\ pc = "classify"
    /\ IF cfg.use_ai_classification
       THEN \E service \in IF cfg.anthropic_api_key THEN Services(n) ELSE {NoService} :
               all_trials' = ClassifyWithAI(all_trials, cfg.anthropic_api_key, service)
       ELSE UNCHANGED all_trials
    /\ pc' = "rank"
    /\ UNCHANGED <<cfg, reg, log, returned, failed, agg, deduped, dedupVars, unitVars>>

\* lines 755-758; an exception of the sort leaves search_trials
Rank ==
    /\ pc = "rank"
    /\ LET r == SortByScore(all_trials)
       IN IF r.raised
          THEN pc' = "raised" /\ UNCHANGED all_trials
          ELSE pc' = "done" /\ all_trials' = r.out
    /\ UNCHANGED <<cfg, reg, log, returned, failed, agg, deduped, dedupVars, unitVars>>

Next ==
    \/ CallClinicalTrialsGov
    \/ CallRegistry
    \/ CallPubmed
    \/ CallGoogleScholar
    \/ Deduplicate
    \/ Classify(1)
    \/ Rank

Spec == Init /\ [][Next]_vars

(***************************************************************************)
(* The end of search_trials alone (lines 750-758): the classification and  *)
(* the ranking of a deduplicated list, with a reasoning service that may   *)
(* answer every call differently.                                          *)
(***************************************************************************)
\* a deduplicated list of n trials: what the ISRCTN search alone leaves
ScoredInput(n) == Extend(<<>>, SearchIsrctnRegistry(<<>>, n, FALSE))

InitScoring ==
    /\ pc = "classify"
    /\ cfg \in [query : {<<"diabetes">>},
                max_results : {30},
                include_academic : {FALSE},
                include_international : {FALSE},
                use_ai_classification : BOOLEAN,
                anthropic_api_key : BOOLEAN,
                serpapi_key : {FALSE}]
    /\ reg = 1
    /\ all_trials \in {ScoredInput(n) : n \in 0..MaxScored}
    /\ deduped = Ids(all_trials)
    /\ agg = all_trials
    /\ log = <<>>
    /\ returned = <<>>
    /\ failed = {}
    /\ DedupIdle
    /\ UnitIdle

NextScoring == Classify(PatternLen) \/ Rank

SpecScoring == InitScoring /\ [][NextScoring]_vars

(***************************************************************************)
(* Properties of deduplicate_trials, checked under SpecDedup.              *)
(***************************************************************************)
\* the token set the duplicate test gives a title
TokensOf(trial) == SplitSet(NormalTitle(trial).s)

SharedTokens(a, b) == Cardinality(TokensOf(a) \cap TokensOf(b))

LongerTokens(a, b) ==
    Max2(Max2(Cardinality(TokensOf(a)), Cardinality(TokensOf(b))), 1)

\* overlap above 4/5, as a comparison of naturals
NearDuplicate(a, b) == 5 * SharedTokens(a, b) > 4 * LongerTokens(a, b)

StrictlyIncreasing(ns) ==
    \A i, j \in 1..Len(ns) : i < j => ns[i] < ns[j]

\* C3: deduplication is idempotent: deduplicate_trials applied to the list it
\* returned returns, without raising, that same list.
C3_SecondPassSame == d_pc = "twice" => d_out2 = d_out

C3_Witness ==
    /\ d_pc = "twice"
    /\ Len(d_in) = 3
    /\ Len(d_out.out) = 2
    /\ Len(d_out2.out) = 2

C5_OrderPreservingSubsequence ==
    (d_pc = "once" /\ ~d_out.raised) =>
        /\ \A k \in 1..Len(d_out.out) :
              /\ d_out.out[k].id \in 1..Len(d_in)
              /\ d_out.out[k] = d_in[d_out.out[k].id]
        /\ StrictlyIncreasing(Ids(d_out.out))

C5_Witness ==
    /\ d_pc = "once"
    /\ ~d_out.raised
    /\ Ids(d_out.out) = <<1, 3>>

(***************************************************************************)
(* Properties of search_trials, checked under Spec and SpecScoring.        *)
(***************************************************************************)
\* search_trials returned: all_trials is its result
Returned == pc = "done"

OutIds == {all_trials[k].id : k \in 1..Len(all_trials)}

PlaceIn(trials, id) == CHOOSE k \in 1..Len(trials) : trials[k].id = id

IdPlace(ids, id) == CHOOSE k \in 1..Len(ids) : ids[k] = id

IsPercent(v) == v.t = "int" /\ v.n \in 0..100

\* C1: every record search_trials returns carries a populated relevance:
\* ai_score, ai_classification and confidence are present, ai_score and
\* confidence integers in 0..100.
C1_RelevancePopulated ==
    Returned =>
        \A k \in 1..Len(all_trials) :
            /\ IsPercent(all_trials[k].ai_score)
            /\ all_trials[k].ai_classification.t = "str"
            /\ IsPercent(all_trials[k].confidence)

HasDefaults(trial) ==
    /\ trial.ai_score = PyInt(75)
    /\ trial.ai_classification = Relevant
    /\ trial.confidence = PyInt(75)

Unclassified(trial) ==
    /\ trial.ai_score = PyAbsent
    /\ trial.ai_classification = PyAbsent
    /\ trial.confidence = PyAbsent

C6_RankingStableDescending ==
    Returned =>
        /\ Len(all_trials) = Len(deduped)
        /\ OutIds = {deduped[k] : k \in 1..Len(deduped)}
        /\ \A i, j \in 1..Len(all_trials) :
              i < j =>
                /\ ~KeyLess(SortKey(all_trials[i]), SortKey(all_trials[j]))
                /\ SortKey(all_trials[i]) = SortKey(all_trials[j])
                     => IdPlace(deduped, all_trials[i].id)
                          < IdPlace(deduped, all_trials[j].id)

\* scores 90, 70, 90, 70 come out as the first 90, the second 90, then the 70s
C6_Witness ==
    /\ Returned
    /\ Len(all_trials) = 4
    /\ [k \in 1..4 |-> all_trials[k].id] = <<1, 3, 2, 4>>
    /\ [k \in 1..4 |-> all_trials[k].ai_score.n] = <<90, 90, 70, 70>>

\* C7: search_trials never raises: whatever the sources and the reasoning
\* service answer, no exception leaves it.
C7_NeverRaises == pc # "raised"

\* the searches of a run, in the order search_trials makes them
Searches ==
    <<"ClinicalTrials.gov">>
    \o (IF cfg.include_international THEN RegistrySearches ELSE <<>>)
    \o (IF cfg.include_academic THEN <<"PubMed", "Google Scholar">> ELSE <<>>)

\* the 'source' the records of a search carry
SourceOf(name) == IF name = "ISRCTN" THEN PyStr(<<"ISRCTN Registry">>) ELSE PyStr(<<name>>)

AllSearches == <<"ClinicalTrials.gov">> \o RegistrySearches \o <<"PubMed", "Google Scholar">>

\* the place of a record's search in the order of the searches
SearchRank(trial) ==
    CHOOSE r \in 1..Len(AllSearches) : SourceOf(AllSearches[r]) = trial.source

\* the searches are over: the aggregated list is complete
Aggregated == pc \in {"dedup", "classify", "rank", "done", "raised"}

\* the aggregated list, before deduplication
Aggregate == IF pc = "dedup" THEN all_trials ELSE agg

IsCall(entry) == entry # "sleep 0.5"

RECURSIVE SumCounts(_)
SumCounts(counts) ==
    IF counts = <<>> THEN 0
    ELSE (IF Head(counts).adapter \in failed THEN 0 ELSE Head(counts).count)
         + SumCounts(Tail(counts))

RecordsOf(trials, name) ==
    Cardinality({k \in 1..Len(trials) : trials[k].source = SourceOf(name)})

\* C8: when exactly one search of a run fails, every other search of the run
\* is still made, in order, and the aggregated list holds as many records as
\* the other searches returned together, those of every search among them.
C8_PartialFailureIsolated ==
    (Aggregated /\ Cardinality(failed) = 1) =>
        /\ SelectSeq(log, IsCall) = Searches
        /\ [k \in 1..Len(returned) |-> returned[k].adapter] = Searches
        /\ Len(Aggregate) = SumCounts(returned)
        /\ \A k \in 1..Len(returned) :
              RecordsOf(Aggregate, returned[k].adapter)
                = IF returned[k].adapter \in failed THEN 0 ELSE returned[k].count

\* the ISRCTN search fails; the searches before and after it return records
C8_Witness ==
    /\ Aggregated
    /\ failed = {"ISRCTN"}
    /\ Len(returned) = 8
    /\ returned[1].count = 3
    /\ returned[4].count = 0
    /\ returned[5].count = 5
    /\ returned[7].count = 1
    /\ returned[8].count = 3
    /\ Len(Aggregate) = 27

\* the token sets of the titles of a list
RECURSIVE TitleTokens(_)
TitleTokens(trials) ==
    IF trials = <<>> THEN <<>>
    ELSE <<TokensOf(Head(trials))>> \o TitleTokens(Tail(trials))

\* two token sets of which more than four fifths of the larger are shared
NearTokens(x, y) ==
    5 * Cardinality(x \cap y) > 4 * Max2(Cardinality(x), Cardinality(y))

\* the near-duplicate pairs of the aggregated list, earlier record first
NearDuplicatePairs ==
    LET tokens == TitleTokens(agg)
    IN {p \in (1..Len(agg)) \X (1..Len(agg)) :
            p[1] < p[2] /\ NearTokens(tokens[p[1]], tokens[p[2]])}

\* a pair whose first record comes from an earlier search than its second
CrossSource(p) == SearchRank(agg[p[1]]) < SearchRank(agg[p[2]])

ScoresTied == ~cfg.use_ai_classification \/ ~cfg.anthropic_api_key

\* two searches returned three records each, the others none
TwoSearchesOfThree ==
    /\ Cardinality({k \in 1..Len(returned) : returned[k].count = 3}) = 2
    /\ \A k \in 1..Len(returned) : returned[k].count \in {0, 3}

\* C9 as the specification states it: a record of a later search that is a
\* near-duplicate of a record of an earlier search is left out and the earlier
\* record is in the result.
C9_EarlierSourceRecordKept ==
    Returned =>
        \A p \in NearDuplicatePairs :
            CrossSource(p) => agg[p[1]].id \in OutIds /\ agg[p[2]].id \notin OutIds

\* C9: a record of a later search that is a near-duplicate of a record of an
\* earlier search which the deduplication kept is left out of the result; and
\* with tied scores, two searches of three records and one near-duplicate pair,
\* across the two, the result has five records, the earlier record of the pair
\* among them, before every record of the later search.
C9_KeptEarlierRecordWins ==
    Returned =>
        LET pairs == NearDuplicatePairs
        IN /\ \A p \in pairs :
                 (CrossSource(p) /\ agg[p[1]].id \in OutIds) => agg[p[2]].id \notin OutIds
           /\ (ScoresTied /\ TwoSearchesOfThree /\ Cardinality(pairs) = 1) =>
                 \A p \in pairs :
                     CrossSource(p) =>
                         /\ Len(all_trials) = 5
                         /\ agg[p[1]].id \in OutIds
                         /\ agg[p[2]].id \notin OutIds
                         /\ \A k \in 1..Len(all_trials) :
                               all_trials[k].source = agg[p[2]].source
                                 => PlaceIn(all_trials, agg[p[1]].id) < k

\* ClinicalTrials.gov and Google Scholar return three records each, one of
\* Google Scholar's a near-duplicate of one of ClinicalTrials.gov's
C9_Witness ==
    /\ Returned
    /\ ScoresTied
    /\ TwoSearchesOfThree
    /\ Len(all_trials) = 5
    /\ Cardinality(NearDuplicatePairs) = 1
    /\ \E p \in NearDuplicatePairs : CrossSource(p)

NonEmptyStr(v) == v.t = "str" /\ v.s # <<>>

\* C10: every record a search returns has a title, a url and a source that
\* are non-empty strings.
C10_FieldsNonEmpty ==
    \A k \in 1..Len(all_trials) :
        /\ NonEmptyStr(all_trials[k].title)
        /\ NonEmptyStr(all_trials[k].url)
        /\ NonEmptyStr(all_trials[k].source)

(***************************************************************************)
(* One search on its own, with the faults its requests may meet.           *)
(***************************************************************************)
\* what may happen to a request: session.get raises (connection, timeout),
\* raise_for_status raises (status), or the body that comes back is not what
\* was asked for (unparsable)
Faults == {"none", "connection", "timeout", "status", "unparsable"}

\* session.get or raise_for_status raises
RequestRaises(fault) == fault \in {"connection", "timeout", "status"}

\* response.json() or the reading of its result raises; only the searches
\* that read the body meet it
ParseRaises(fault) == fault = "unparsable"

\* the searches that read the body of the response to their first request
ParsingSearches == {"ClinicalTrials.gov", "PubMed", "Google Scholar"}

\* the call search_func(query, max_results) with the answers of the source
SearchCall(adapter, max_results, serpapi_key, fault, fetch_fault, items) ==
    [adapter |-> adapter, query |-> <<"diabetes">>, max_results |-> max_results,
     serpapi_key |-> serpapi_key, fault |-> fault, fetch_fault |-> fetch_fault,
     items |-> items]

\* what the call returns; every search catches Exception around its whole body
SearchOf(call) ==
    CASE call.adapter = "ClinicalTrials.gov" ->
            SearchClinicalTrialsGov(
                [fail |-> RequestRaises(call.fault) \/ ParseRaises(call.fault),
                 studies |-> SubSeq(CTGovStudies, 1, call.items)])
      [] call.adapter = "Google Scholar" ->
            SearchGoogleScholar(call.serpapi_key,
                [fail |-> RequestRaises(call.fault) \/ ParseRaises(call.fault),
                 results |-> SubSeq(ScholarResults, 1, call.items)])
      [] call.adapter = "PubMed" ->
            SearchPubmedRelated(call.max_results,
                [search_fail |-> RequestRaises(call.fault) \/ ParseRaises(call.fault),
                 fetch_fail |-> RequestRaises(call.fetch_fault),
                 idlist |-> SubSeq(Pmids, 1, call.items)])
      [] OTHER ->
            RegistrySearch(call.adapter, call.query, call.max_results,
                           call.adapter \in RequestingRegistries
                             /\ RequestRaises(call.fault))

SearchCalls ==
    {SearchCall(a, m, k, f, ff, n) :
        a \in {"ClinicalTrials.gov", "WHO ICTRP", "EU CTIS", "ISRCTN", "ANZCTR",
               "CTRI India", "PubMed", "Google Scholar"},
        m \in 0..MaxAsked, k \in BOOLEAN, f \in Faults, ff \in Faults,
        n \in 0..MaxItems}

InitSearch ==
    /\ u_pc = "call"
    /\ u_in \in {c \in SearchCalls :
                    /\ c.serpapi_key => c.adapter = "Google Scholar"
                    /\ c.fetch_fault # "none" => c.adapter = "PubMed"
                    /\ c.items > 0 => c.adapter \in ParsingSearches}
    /\ u_out = NoResult
    /\ PipeIdle
    /\ DedupIdle

\* the call returns
SearchReturns ==
    /\ u_pc = "call"
    /\ u_out' = [raised |-> FALSE, out |-> SearchOf(u_in)]
    /\ u_pc' = "returned"
    /\ UNCHANGED <<u_in, pipeVars, dedupVars>>

NextSearch == SearchReturns

SpecSearch == InitSearch /\ [][NextSearch]_vars

\* a request of the call met a fault
MetFault(call) ==
    \/ call.adapter \in RequestingRegistries \cup ParsingSearches
         /\ call.fault # "none"
         /\ (call.adapter = "Google Scholar" => call.serpapi_key)
    \/ call.adapter = "PubMed" /\ call.fault = "none" /\ call.items > 0
         /\ call.fetch_fault # "none"

\* a request of the call raised, or a body the search reads could not be read
MetFaultItReads(call) ==
    \/ call.adapter \in RequestingRegistries /\ RequestRaises(call.fault)
    \/ call.adapter \in ParsingSearches /\ call.fault # "none"
         /\ (call.adapter = "Google Scholar" => call.serpapi_key)
    \/ call.adapter = "PubMed" /\ call.fault = "none" /\ call.items > 0
         /\ RequestRaises(call.fetch_fault)

\* C11 as the specification states it: a search never raises, and returns no
\* record when a request of it fails, times out or is answered with a body
\* that cannot be parsed.
C11_FaultGivesNothing ==
    u_pc = "returned" =>
        /\ ~u_out.raised
        /\ MetFault(u_in) => u_out.out = <<>>

\* C11: a search never raises, and returns no record when a request of it
\* fails, times out or is refused, or when a body it reads cannot be parsed; a
\* search that does not read the body of the response (WHO ICTRP, ISRCTN,
\* ANZCTR, the fetch of PubMed) returns its records whatever the body is.
C11_FaultItReadsGivesNothing ==
    u_pc = "returned" =>
        /\ ~u_out.raised
        /\ MetFaultItReads(u_in) => u_out.out = <<>>
        /\ (u_in.adapter \in RequestingRegistries /\ u_in.fault = "unparsable"
              /\ u_in.max_results > 0) => u_out.out # <<>>

\* the request of ISRCTN times out
C11_Witness ==
    /\ u_pc = "returned"
    /\ u_in.adapter = "ISRCTN"
    /\ u_in.fault = "timeout"
    /\ u_in.max_results = 2
    /\ u_out = NoResult

(***************************************************************************)
(* The searches of search_trials (lines 704-729) for any query and any     *)
(* max_results, the empty query and the numbers below one among them.      *)
(***************************************************************************)
\* selected_registries: None, or a list of names
SelectedRegistries ==
    {[given |-> FALSE, names |-> {}],
     [given |-> TRUE, names |-> {"ISRCTN"}],
     [given |-> TRUE, names |-> {"ClinicalTrials.gov", "WHO ICTRP"}]}

AnyConfigs ==
    [query : {<<>>, <<"diabetes">>},
     max_results : (0 - 1)..MaxAsked,
     selected_registries : SelectedRegistries,
     include_academic : {FALSE},
     include_international : BOOLEAN,
     use_ai_classification : {FALSE},
     anthropic_api_key : {FALSE},
     serpapi_key : {FALSE}]

InitAny ==
    /\ pc = "ctgov"
    /\ cfg \in AnyConfigs
    /\ reg = 1
    /\ all_trials = <<>>
    /\ log = <<>>
    /\ returned = <<>>
    /\ failed = {}
    /\ agg = <<>>
    /\ deduped = <<>>
    /\ DedupIdle
    /\ UnitIdle

NextAny == CallClinicalTrialsGov \/ CallRegistry

SpecAny == InitAny /\ [][NextAny]_vars

\* what the specification calls invalid input
InvalidInput == cfg.query = <<>> \/ cfg.max_results <= 0

\* C12: a run with an empty query or a max_results that is not positive makes
\* no search at all.
C12_InvalidInputRejected == (pc # "idle" /\ InvalidInput) => log = <<>>

\* C16: with a positive max_results no search adds more than max_results
\* records to all_trials.
C16_SourceWithinMaxResults ==
    cfg.max_results > 0 =>
        \A k \in 1..Len(returned) : returned[k].count <= cfg.max_results

(***************************************************************************)
(* classify_with_ai on its own, one turn of its loop at a time (lines      *)
(* 600-680).  u_out holds the list as it is so far (out), the trial the    *)
(* loop is at (i) and the calls to the service and the pauses made so far  *)
(* (trace).                                                                *)
(***************************************************************************)
\* a list of n trials not classified yet
BatchInput(n) == Extend(<<>>, SearchWhoIctrp(<<"diabetes">>, n, FALSE))

\* short lists with a reply of its own for every trial, and one long list
\* with a service that repeats itself
ClassifyCalls ==
    UNION {{[trials |-> BatchInput(n), anthropic_api_key |-> k, service |-> sv] :
                k \in BOOLEAN, sv \in Services(Max2(n, 1))} : n \in 0..MaxBatch}
    \cup {[trials |-> BatchInput(LongBatch), anthropic_api_key |-> TRUE, service |-> sv] :
            sv \in Services(PatternLen)}

InitClassify ==
    /\ u_pc = "call"
    /\ u_in \in {c \in ClassifyCalls : ~c.anthropic_api_key => c.service = NoService}
    /\ u_out = [raised |-> FALSE, out |-> u_in.trials, i |-> 1, trace |-> <<>>]
    /\ PipeIdle
    /\ DedupIdle

\* lines 600-612: no key, or no client
ClassifyEnter ==
    /\ u_pc = "call"
    /\ IF ~u_in.anthropic_api_key
       THEN /\ u_out' = [u_out EXCEPT
                           !.out = [k \in 1..Len(u_in.trials) |->
                                       ClassifyDefault(u_in.trials[k])]]
            /\ u_pc' = "returned"
       ELSE IF ~u_in.service.client_ok
            THEN /\ u_out' = [u_out EXCEPT
                                !.out = [k \in 1..Len(u_in.trials) |->
                                            SetRelevance(u_in.trials[k], PyInt(75),
                                                         Relevant, PyInt(70))]]
                 /\ u_pc' = "returned"
            ELSE /\ u_out' = u_out
                 /\ u_pc' = "loop"
    /\ UNCHANGED <<u_in, pipeVars, dedupVars>>

\* the pause of lines 660-661, which a call that raised jumps over
PauseAfter(i, reply) ==
    IF reply.kind # "error" /\ i - 1 > 0 /\ (i - 1) % 5 = 0 THEN <<"sleep 1">> ELSE <<>>

\* lines 614-668: the turn of the loop for the i-th trial (from 1)
ClassifyTurn ==
    /\ u_pc = "loop"
    /\ u_out.i <= Len(u_in.trials)
    /\ LET i == u_out.i
           reply == ReplyAt(u_in.service, i)
       IN u_out' = [u_out EXCEPT
                       !.out[i] = ClassifyOne(@, reply),
                       !.i = i + 1,
                       !.trace = @ \o <<"call">> \o PauseAfter(i, reply)]
    /\ UNCHANGED <<u_pc, u_in, pipeVars, dedupVars>>

\* lines 670-671
ClassifyReturn ==
    /\ u_pc = "loop"
    /\ u_out.i > Len(u_in.trials)
    /\ u_pc' = "returned"
    /\ UNCHANGED <<u_in, u_out, pipeVars, dedupVars>>

NextClassify == ClassifyEnter \/ ClassifyTurn \/ ClassifyReturn

SpecClassify == InitClassify /\ [][NextClassify]_vars

\* the loop is a for over a list: its turns are taken
SpecClassifyFair == SpecClassify /\ WF_vars(NextClassify)

IsCallToService(entry) == entry = "call"

Classified(trial) ==
    /\ trial.ai_score # PyAbsent
    /\ trial.ai_classification # PyAbsent
    /\ trial.confidence # PyAbsent

\* the trial but for its relevance
SameTrial(a, b) ==
    /\ a.id = b.id
    /\ a.title = b.title
    /\ a.url = b.url
    /\ a.source = b.source

\* classify_with_ai has returned the trials it was given, every one classified
\* and none called for twice
ClassifiedAll ==
    /\ u_pc = "returned"
    /\ ~u_out.raised
    /\ Len(u_out.out) = Len(u_in.trials)
    /\ \A k \in 1..Len(u_in.trials) :
          SameTrial(u_out.out[k], u_in.trials[k]) /\ Classified(u_out.out[k])
    /\ Len(SelectSeq(u_out.trace, IsCallToService))
         = IF u_in.anthropic_api_key /\ u_in.service.client_ok
           THEN Len(u_in.trials) ELSE 0
    /\ u_out.out = ClassifyWithAI(u_in.trials, u_in.anthropic_api_key, u_in.service)

\* C13: classify_with_ai comes to return, and returns the trials it was given,
\* as many and in their order, every one classified, after one call to the
\* service for each at most.
C13_ReturnsAllClassifiedOnce == <>[]ClassifiedAll

\* three trials whose calls are answered by a reply, by no JSON and by an error
C13_Witness ==
    /\ u_pc = "returned"
    /\ Len(u_in.trials) = 3
    /\ u_in.service.client_ok
    /\ u_in.service.pattern
         = <<ReplyJson(PyInt(90), PyStr(<<"Highly Relevant">>), PyInt(85)),
             ReplyNoJson, ReplyError>>
    /\ u_out.trace = <<"call", "call", "call">>
    /\ u_out.out[3].ai_score = PyInt(70)

HasRelevance(trial, score, confidence) ==
    /\ trial.ai_score = PyInt(score)
    /\ trial.ai_classification = Relevant
    /\ trial.confidence = PyInt(confidence)

\* a reply that holds the JSON object asked for
WellFormedReply == ReplyJson(PyInt(90), PyStr(<<"Highly Relevant">>), PyInt(85))

\* the call has returned from the loop over the trials
LoopReturned ==
    u_pc = "returned" /\ u_in.anthropic_api_key /\ u_in.service.client_ok

\* the service with the reply to the k-th call replaced
WithReply(service, k, reply) == [service EXCEPT !.pattern[k] = reply]

\* C14: a trial whose reply holds no JSON object that parses gets score 75,
\* 'Relevant' and confidence 70, and every other trial of the list gets what it
\* gets when that reply is well-formed.
C14_UnreadReplyIsolated ==
    LoopReturned =>
        \A k \in 1..Len(u_in.trials) :
            ReplyAt(u_in.service, k) = ReplyNoJson =>
                /\ HasRelevance(u_out.out[k], 75, 70)
                /\ Len(u_in.trials) <= Len(u_in.service.pattern) =>
                      \A j \in 1..Len(u_in.trials) :
                          j # k =>
                            u_out.out[j]
                              = ClassifyWithAI(u_in.trials, TRUE,
                                               WithReply(u_in.service, k,
                                                         WellFormedReply))[j]

\* the second of three replies holds no JSON, the others are read
C14_Witness ==
    /\ LoopReturned
    /\ Len(u_in.trials) = 3
    /\ u_in.service.pattern
         = <<ReplyJson(PyInt(150), PyStr(<<"Highly Relevant">>), PyInt(100)),
             ReplyNoJson, WellFormedReply>>
    /\ HasRelevance(u_out.out[2], 75, 70)
    /\ u_out.out[1].ai_score = PyInt(150)
    /\ u_out.out[3].ai_score = PyInt(90)

\* the service cannot be reached for any trial of the list
Unreachable(call) ==
    /\ call.anthropic_api_key
    /\ \/ ~call.service.client_ok
       \/ \A k \in 1..Len(call.service.pattern) : call.service.pattern[k] = ReplyError

\* C15 as the specification states it: when the client cannot be made or every
\* call fails, classify_with_ai returns and every trial has score 75,
\* 'Relevant' and confidence 75.
C15_UnreachableGivesDefaults ==
    (u_pc = "returned" /\ Unreachable(u_in)) =>
        /\ ~u_out.raised
        /\ \A k \in 1..Len(u_out.out) : HasRelevance(u_out.out[k], 75, 75)

\* C15: when the client cannot be made classify_with_ai returns and every
\* trial has score 75, 'Relevant' and confidence 70; when every call fails it
\* returns and every trial has score 70, 'Relevant' and confidence 65.
C15_UnreachableGivesFallbacks ==
    (u_pc = "returned" /\ Unreachable(u_in)) =>
        /\ ~u_out.raised
        /\ Len(u_out.out) = Len(u_in.trials)
        /\ \A k \in 1..Len(u_out.out) :
              IF u_in.service.client_ok
              THEN HasRelevance(u_out.out[k], 70, 65)
              ELSE HasRelevance(u_out.out[k], 75, 70)

\* the three calls made for three trials all fail
C15_Witness ==
    /\ u_pc = "returned"
    /\ Unreachable(u_in)
    /\ u_in.service.client_ok
    /\ Len(u_in.trials) = 3
    /\ u_out.trace = <<"call", "call", "call">>
    /\ \A k \in 1..3 : HasRelevance(u_out.out[k], 70, 65)

\* what search_trials returns beside the list of trials: nothing (line 758)
RunReport == <<>>

\* C17: a run returns with its trials a report that lists every search made
\* with the number of records it returned and marks it failed exactly when its
\* request failed.
C17_RunReportMarksFailures ==
    Returned =>
        /\ Len(RunReport) = Len(Searches)
        /\ \A k \in 1..Len(Searches) :
              /\ RunReport[k].source = Searches[k]
              /\ RunReport[k].count = returned[k].count
              /\ RunReport[k].failed = (Searches[k] \in failed)

\* the searches called so far
CalledSearches == {log[k] : k \in {n \in 1..Len(log) : IsCall(log[n])}}

\* C18: the international registries are searched only with
\* include_international, the academic sources only with include_academic, and
\* when selected_registries is given no search outside it is made and no record
\* of a source outside it is in all_trials.
C18_OnlyEnabledSearches ==
    /\ ~cfg.include_international =>
          CalledSearches \cap {RegistrySearches[k] : k \in 1..Len(RegistrySearches)} = {}
    /\ ~cfg.include_academic => CalledSearches \cap {"PubMed", "Google Scholar"} = {}
    /\ cfg.selected_registries.given =>
          /\ CalledSearches \subseteq cfg.selected_registries.names
          /\ \A k \in 1..Len(all_trials) :
                \E name \in cfg.selected_registries.names :
                    all_trials[k].source = SourceOf(name)

(***************************************************************************)
(* export_to_excel on its own (lines 815-834): the rows it makes of the    *)
(* trials.  The trials here carry also the keys that name them at their    *)
(* source.                                                                 *)
(***************************************************************************)
\* a trial with the keys nct_id (line 229), pmid (line 367) and registry_id
\* (lines 416, 460, 504, 539, 575) its search gave it, PyAbsent for none
WithIds(trial, nct_id, pmid, registry_id) ==
    [id |-> trial.id, title |-> trial.title, url |-> trial.url,
     source |-> trial.source, ai_score |-> trial.ai_score,
     ai_classification |-> trial.ai_classification,
     confidence |-> trial.confidence,
     nct_id |-> nct_id, pmid |-> pmid, registry_id |-> registry_id]

\* one trial of each kind the searches make
ExportTrials ==
    <<WithIds(ClassifyDefault(ProcessStudy(Study(TitlePhaseTwo, PyAbsent, PyStr(<<"NCT01">>)))),
              PyStr(<<"NCT01">>), PyAbsent, PyAbsent),
      WithIds(ProcessStudy(Study(PyAbsent, PyAbsent, PyAbsent)), NA, PyAbsent, PyAbsent),
      WithIds(SearchPubmedRelated(5, [search_fail |-> FALSE, fetch_fail |-> FALSE,
                                      idlist |-> <<"101">>])[1],
              PyAbsent, PyStr(<<"101">>), PyAbsent),
      WithIds(SearchIsrctnRegistry(<<"diabetes">>, 1, FALSE)[1],
              PyAbsent, PyAbsent, PyStr(<<"ISRCTN0000000", "1">>)),
      WithIds(ClassifyDefault(SearchEuCtis(<<"diabetes">>, 1)[1]),
              PyAbsent, PyAbsent, PyStr(<<"EU-CT-", "2020000000">>)),
      WithIds(ProcessResult(ScholarResult(TitlePhaseTrial, PyStr(<<"https://doi.org/1">>))),
              PyAbsent, PyAbsent, PyAbsent)>>

\* lines 818-833: the row of one trial (the columns of the keys the model
\* keeps)
RowOf(trial) ==
    [Title |-> Get(trial.title, NA),
     URL |-> Get(trial.url, NA),
     Source |-> Get(trial.source, NA),
     AI_Score |-> Get(trial.ai_score, NA),
     AI_Classification |-> Get(trial.ai_classification, NA),
     Confidence |-> Get(trial.confidence, NA),
     NCT_ID |-> Get(trial.nct_id, Get(trial.pmid, NA))]

\* lines 816-834: excel_data
ExportToExcel(trials) == [k \in 1..Len(trials) |-> RowOf(trials[k])]

InitExport ==
    /\ u_pc = "call"
    /\ u_in \in UNION {[1..n -> {ExportTrials[k] : k \in 1..Len(ExportTrials)}] :
                         n \in 0..MaxLen}
    /\ u_out = NoResult
    /\ PipeIdle
    /\ DedupIdle

ExportReturns ==
    /\ u_pc = "call"
    /\ u_out' = [raised |-> FALSE, out |-> ExportToExcel(u_in)]
    /\ u_pc' = "returned"
    /\ UNCHANGED <<u_in, pipeVars, dedupVars>>

NextExport == ExportReturns

SpecExport == InitExport /\ [][NextExport]_vars

\* the identifier a trial has at its source, PyAbsent for none
NativeId(trial) == Get(trial.nct_id, Get(trial.pmid, trial.registry_id))

\* the cell of a key: its value, 'N/A' exactly when the trial has none
CellOf(value) == IF value = PyAbsent THEN NA ELSE value

\* C19: the export makes one row for each trial, in order, and a cell holds
\* 'N/A' exactly when the trial has no value for it: the identifier cell holds
\* the identifier the trial has at its source whenever it has one.
C19_RowsAndIdentifiers ==
    u_pc = "returned" =>
        /\ Len(u_out.out) = Len(u_in)
        /\ \A k \in 1..Len(u_in) :
              /\ u_out.out[k].Title = CellOf(u_in[k].title)
              /\ u_out.out[k].URL = CellOf(u_in[k].url)
              /\ u_out.out[k].Source = CellOf(u_in[k].source)
              /\ u_out.out[k].AI_Score = CellOf(u_in[k].ai_score)
              /\ u_out.out[k].AI_Classification = CellOf(u_in[k].ai_classification)
              /\ u_out.out[k].Confidence = CellOf(u_in[k].confidence)
              /\ u_out.out[k].NCT_ID = CellOf(NativeId(u_in[k]))

(***************************************************************************)
(* The rule of deduplicate_trials as a whole, checked under SpecDedup.     *)
(***************************************************************************)
\* the places of the input whose record was accepted
AcceptedPlaces == {d_out.out[k].id : k \in 1..Len(d_out.out)}

\* an accepted record before place i with overlap > 0.8 with the record at i
NearAcceptedBefore(i) ==
    \E j \in AcceptedPlaces : j < i /\ NearDuplicate(d_in[j], d_in[i])

NextCalls ==
    \/ CallClinicalTrialsGov
    \/ CallRegistry
    \/ CallPubmed
    \/ CallGoogleScholar

SpecCalls == Init /\ [][NextCalls]_vars

IsPrefix(s, t) == Len(s) <= Len(t) /\ \A k \in 1..Len(s) : s[k] = t[k]

\* the calls made so far, in order
CallsMade == SelectSeq(log, IsCall)

\* the number of records the first n calls returned together
RECURSIVE CountBefore(_)
CountBefore(n) == IF n = 0 THEN 0 ELSE CountBefore(n - 1) + returned[n].count

\* C21: the searches of a run are made one at a time in a fixed order, each at
\* most once: ClinicalTrials.gov, then the registries in their listed order,
\* then PubMed and Google Scholar; the list before deduplication is the
\* records of the calls one after another in that order, so that every record
\* of ClinicalTrials.gov stands before every record of another search.
C21_FixedOrderConcatenation ==
    /\ IsPrefix(CallsMade, Searches)
    /\ pc = "dedup" => CallsMade = Searches
    /\ [k \in 1..Len(returned) |-> returned[k].adapter] = CallsMade
    /\ Len(all_trials) = CountBefore(Len(returned))
    /\ \A n \in 1..Len(returned) :
          \A k \in (CountBefore(n - 1) + 1)..CountBefore(n) :
              all_trials[k].source = SourceOf(returned[n].adapter)
    /\ \A i, j \in 1..Len(all_trials) :
          (all_trials[j].source = SourceOf("ClinicalTrials.gov")
             /\ all_trials[i].source # SourceOf("ClinicalTrials.gov")) => j < i

\* all eight searches were made and the first and the last returned records
C21_Witness ==
    /\ pc = "dedup"
    /\ Len(returned) = 8
    /\ returned[1].count = 3
    /\ returned[2].count = 5
    /\ returned[8].count = 3
    /\ all_trials[1].source = SourceOf("ClinicalTrials.gov")
    /\ all_trials[Len(all_trials)].source = SourceOf("Google Scholar")

\* C23: between two successive calls of different searches of a run there is
\* a pause of 0.5: no call follows another call at once, from
\* ClinicalTrials.gov to the first registry, between PubMed and Google
\* Scholar, or after a search that failed.
C23_PauseBetweenCalls ==
    \A k \in 1..(Len(log) - 1) : ~(IsCall(log[k]) /\ IsCall(log[k + 1]))

(***************************************************************************)
(* The pauses of classify_with_ai and what it does to the list it is       *)
(* given, checked under SpecClassify.                                      *)
(***************************************************************************)
\* the number of calls to the service among the first p entries of the trace
CallsBefore(trace, p) == Cardinality({q \in 1..p : trace[q] = "call"})

\* the numbers n such that a pause was made after the n-th call and before
\* the next
PausedAfter ==
    {CallsBefore(u_out.trace, p) :
        p \in {q \in 1..Len(u_out.trace) : u_out.trace[q] = "sleep 1"}}

\* C22: with a key, a pause is made after every 5 records: after the 5th, the
\* 10th, ... record and before the call for the next one, and nowhere else,
\* whether the record got its relevance from a reply or from the fallback of
\* its turn.
C22_PauseAfterEveryFive ==
    (u_pc = "returned" /\ u_in.anthropic_api_key /\ u_in.service.client_ok) =>
        /\ {n \in 1..(Len(u_in.trials) - 1) : n % 5 = 0} \subseteq PausedAfter
        /\ PausedAfter \subseteq {n \in 1..Len(u_in.trials) : n % 5 = 0}

\* the list the caller gave, after the call: line 603 and lines 646-666 assign
\* to the dicts of that list, which u_out.out follows turn by turn, and lines
\* 606 and 671 return that same list
CallersTrials == u_out.out

\* C25: classify_with_ai does not change the records it is given: when it has
\* returned, every record of the caller's list is as it was, without
\* ai_score, ai_classification and confidence.
C25_InputUnchanged ==
    u_pc = "returned" =>
        /\ CallersTrials = u_in.trials
        /\ \A k \in 1..Len(CallersTrials) : Unclassified(CallersTrials[k])

(***************************************************************************)
(* The loops over the items of a response (lines 192-243 and 289-303): a   *)
(* search given a response of several items, some of them malformed.       *)
(***************************************************************************)
ItemSearches == {"ClinicalTrials.gov", "Google Scholar"}

\* the items a response of the source may hold
ItemsOf(adapter) ==
    IF adapter = "ClinicalTrials.gov"
    THEN {CTGovStudies[k] : k \in 1..Len(CTGovStudies)}
    ELSE {ScholarResults[k] : k \in 1..Len(ScholarResults)}

InitItems ==
    /\ u_pc = "call"
    /\ u_in \in UNION {[adapter : {a}, items : SeqsUpTo(ItemsOf(a), MaxItems)] :
                         a \in ItemSearches}
    /\ u_out = NoResult
    /\ PipeIdle
    /\ DedupIdle

\* the search returns, its request answered with the items
ItemsReturn ==
    /\ u_pc = "call"
    /\ u_out' = [raised |-> FALSE,
                 out |-> IF u_in.adapter = "ClinicalTrials.gov"
                         THEN SearchClinicalTrialsGov(
                                  [fail |-> FALSE, studies |-> u_in.items])
                         ELSE SearchGoogleScholar(TRUE,
                                  [fail |-> FALSE, results |-> u_in.items])]
    /\ u_pc' = "returned"
    /\ UNCHANGED <<u_in, pipeVars, dedupVars>>

NextItems == ItemsReturn

SpecItems == InitItems /\ [][NextItems]_vars

WellFormed(item) == ~item.malformed

\* the title the search gives the record of an item
TitleOfItem(adapter, item) ==
    IF adapter = "ClinicalTrials.gov" THEN TitleOfStudy(item)
    ELSE Get(item.title, NoTitle)

\* C24: when an item of a response of several items cannot be processed, that
\* item alone is skipped: the search returns one record for every other item
\* of the response, in the order of the response.
C24_MalformedItemSkippedAlone ==
    u_pc = "returned" =>
        LET good == SelectSeq(u_in.items, WellFormed)
        IN /\ ~u_out.raised
           /\ Len(u_out.out) = Len(good)
           /\ \A k \in 1..Len(good) :
                 /\ u_out.out[k].title = TitleOfItem(u_in.adapter, good[k])
                 /\ u_out.out[k].source = PyStr(<<u_in.adapter>>)

\* a malformed study between two studies with different titles
C24_Witness ==
    /\ u_pc = "returned"
    /\ u_in.adapter = "ClinicalTrials.gov"
    /\ Len(u_in.items) = 3
    /\ u_in.items[2].malformed
    /\ Len(u_out.out) = 2
    /\ u_out.out[1].title = TitlePhaseTwo
    /\ u_out.out[2].title = TitlePhaseThree

(***************************************************************************)
(* search_pubmed_related request by request (lines 324-376): the id search *)
(* and the fetch of the details, u_out.requests the requests it has made.  *)
(***************************************************************************)
\* ','.join(pmids)
RECURSIVE JoinIds(_)
JoinIds(pmids) ==
    IF pmids = <<>> THEN <<>>
    ELSE IF Len(pmids) = 1 THEN <<Head(pmids)>>
    ELSE <<Head(pmids), ",">> \o JoinIds(Tail(pmids))

\* lines 340-341
EsearchRequest == [to |-> "esearch.fcgi", id |-> <<>>]

\* a fetch for every id of its own
FetchRequestsEach(pmids) ==
    [k \in 1..Len(pmids) |-> [to |-> "efetch.fcgi", id |-> <<pmids[k]>>]]

\* lines 349-357: the requests that fetch the details of the ids
FetchRequests(pmids) == <<[to |-> "efetch.fcgi", id |-> JoinIds(pmids)]>>

PubmedCalls ==
    [max_results : 0..MaxAsked, fault : Faults, fetch_fault : Faults,
     idlist : {SubSeq(Pmids, 1, n) : n \in 0..Len(Pmids)}]

InitPubmed ==
    /\ u_pc = "call"
    /\ u_in \in PubmedCalls
    /\ u_out = [raised |-> FALSE, out |-> <<>>, requests |-> <<>>]
    /\ PipeIdle
    /\ DedupIdle

\* lines 340-347: the id search; a request or a body that raises, and an
\* empty idlist, end the search with no record
PubmedSearchIds ==
    /\ u_pc = "call"
    /\ u_out' = [u_out EXCEPT !.requests = Append(@, EsearchRequest)]
    /\ u_pc' = IF RequestRaises(u_in.fault) \/ ParseRaises(u_in.fault)
                  \/ u_in.idlist = <<>>
               THEN "returned" ELSE "fetch"
    /\ UNCHANGED <<u_in, pipeVars, dedupVars>>

\* lines 349-373: the fetch and the records; the body of the fetch is not read
PubmedFetch ==
    /\ u_pc = "fetch"
    /\ u_out' = [u_out EXCEPT
                    !.requests = @ \o FetchRequests(u_in.idlist),
                    !.out = SearchPubmedRelated(u_in.max_results,
                                [search_fail |-> FALSE,
                                 fetch_fail |-> RequestRaises(u_in.fetch_fault),
                                 idlist |-> u_in.idlist])]
    /\ u_pc' = "returned"
    /\ UNCHANGED <<u_in, pipeVars, dedupVars>>

NextPubmed == PubmedSearchIds \/ PubmedFetch

SpecPubmed == InitPubmed /\ [][NextPubmed]_vars

IsFetch(request) == request.to = "efetch.fcgi"

\* the id search answered with ids
IdsFound ==
    ~RequestRaises(u_in.fault) /\ ~ParseRaises(u_in.fault) /\ u_in.idlist # <<>>

\* C26: search_pubmed_related makes one id search, and after it at most one
\* fetch of details, which carries all the ids the id search returned however
\* many they are; it makes no fetch before the id search, and none when the id
\* search fails or returns no id.
C26_OneSearchOneBatchedFetch ==
    /\ u_pc # "call" =>
          /\ u_out.requests # <<>>
          /\ u_out.requests[1] = EsearchRequest
          /\ \A k \in 2..Len(u_out.requests) : IsFetch(u_out.requests[k])
    /\ Len(SelectSeq(u_out.requests, IsFetch)) <= 1
    /\ u_pc = "returned" =>
          /\ Len(SelectSeq(u_out.requests, IsFetch)) = (IF IdsFound THEN 1 ELSE 0)
          /\ IdsFound => u_out.requests[2].id = JoinIds(u_in.idlist)
          /\ u_out.out = SearchPubmedRelated(u_in.max_results,
                            [search_fail |-> RequestRaises(u_in.fault)
                                               \/ ParseRaises(u_in.fault),
                             fetch_fail |-> RequestRaises(u_in.fetch_fault),
                             idlist |-> u_in.idlist])

\* six ids were found, more than were asked for: one fetch carries the six
C26_Witness ==
    /\ u_pc = "returned"
    /\ Len(u_in.idlist) = 6
    /\ u_in.max_results = 2
    /\ Len(u_out.requests) = 2
    /\ Len(u_out.requests[2].id) = 11
    /\ Len(u_out.out) = 2

(***************************************************************************)
(* What the duplicate test reads, checked under SpecDedup.                 *)
(***************************************************************************)
\* the trials with the url and the source of every one replaced
WithAttributes(trials, url, source) ==
    [k \in 1..Len(trials) |-> [trials[k] EXCEPT !.url = url, !.source = source]]

\* the trials with the urls and the sources in the reverse order
WithAttributesReversed(trials) ==
    [k \in 1..Len(trials) |->
        [trials[k] EXCEPT !.url = trials[Len(trials) + 1 - k].url,
                          !.source = trials[Len(trials) + 1 - k].source]]

\* lists with the titles of d_in, place by place, and other attributes
Variants ==
    {WithAttributes(d_in, NA, PyAbsent), WithAttributesReversed(d_in)}

SameKept(trials) ==
    LET r == DeduplicateTrials(trials)
    IN r.raised = d_out.raised /\ Ids(r.out) = Ids(d_out.out)

\* C27 as the specification states it: the duplicate test reads titles only,
\* and two records with the same title and different identifiers collapse to
\* one.
C27_SameTitleCollapses ==
    d_pc = "once" =>
        /\ \A v \in Variants : SameKept(v)
        /\ (~d_out.raised /\ Len(d_in) = 2 /\ d_in[1].title = d_in[2].title
              /\ d_in[1].url # d_in[2].url) => Ids(d_out.out) = <<1>>

\* C27: the duplicate test reads titles only: a list with the same titles,
\* place by place, and other urls and sources has the same places kept; two
\* records with the same title and different identifiers collapse to one when
\* the title has a token, and are both kept when it has none.
C27_TitlesOnly ==
    d_pc = "once" =>
        /\ \A v \in Variants : SameKept(v)
        /\ (~d_out.raised /\ Len(d_in) = 2 /\ d_in[1].title = d_in[2].title
              /\ d_in[1].url # d_in[2].url) =>
                Ids(d_out.out) = IF TokensOf(d_in[1]) # {} THEN <<1>> ELSE <<1, 2>>

\* the same title three times under three urls and sources: one is kept
C27_Witness ==
    /\ d_pc = "once"
    /\ Len(d_in) = 3
    /\ d_in[1].title = TitlePhaseTwo
    /\ d_in[2].title = TitlePhaseTwo
    /\ d_in[3].title = TitlePhaseThree
    /\ d_in[1].source # d_in[2].source
    /\ Ids(d_out.out) = <<1, 3>>
    /\ Variants # {d_in}

\* three records of which the second is a near-duplicate of the first and of
\* the third, and the first and the third are none of each other
Chain ==
    /\ Len(d_in) = 3
    /\ NearDuplicate(d_in[1], d_in[2])
    /\ NearDuplicate(d_in[2], d_in[3])
    /\ ~NearDuplicate(d_in[1], d_in[3])

\* the input with its second record put first
MiddleFirst == <<d_in[2], d_in[1], d_in[3]>>

TitlesOf(trials) == {trials[k].title : k \in 1..Len(trials)}

\* C28: the result of deduplicate_trials depends on the order of its input:
\* of a chain of three records the first and the third are kept, and of the
\* same records with the second put first only that one, so that the kept
\* titles and the number of kept records differ between the two orders.
C28_OrderDependent ==
    (d_pc = "once" /\ ~d_out.raised /\ Chain) =>
        LET other == DeduplicateTrials(MiddleFirst)
        IN /\ Ids(d_out.out) = <<1, 3>>
           /\ ~other.raised
           /\ Ids(other.out) = <<2>>
           /\ Len(other.out) # Len(d_out.out)
           /\ TitlesOf(other.out) # TitlesOf(d_out.out)

\* the chain of the titles of five, six and five tokens
C28_Witness ==
    /\ d_pc = "once"
    /\ Chain
    /\ d_in[1].title = TitlePhaseTwo
    /\ d_in[2].title = TitlePhaseTwoTrial
    /\ d_in[3].title = TitlePhaseTrial
    /\ Len(d_out.out) = 2
    /\ Len(DeduplicateTrials(MiddleFirst).out) = 1

\* a title without tokens: missing, empty or of spaces only
Tokenless(trial) == NormalTitle(trial).t = "str" /\ TokensOf(trial) = {}

\* the input without its records of tokenless title
WithTokens(trial) == ~Tokenless(trial)

\* C29: a record whose title is missing, empty or of spaces only is never
\* discarded, several of them are all kept, and it causes no other record to
\* be discarded: the other records kept are those kept of the input without
\* the tokenless records.
C29_TokenlessKept ==
    (d_pc = "once" /\ ~d_out.raised) =>
        /\ \A k \in 1..Len(d_in) : Tokenless(d_in[k]) => k \in AcceptedPlaces
        /\ LET rest == DeduplicateTrials(SelectSeq(d_in, WithTokens))
           IN /\ ~rest.raised
              /\ Ids(rest.out) = Ids(SelectSeq(d_out.out, WithTokens))

\* a missing and a blank title around two equal titles: three records kept
C29_Witness ==
    /\ d_pc = "once"
    /\ ~d_out.raised
    /\ Len(d_in) = 3
    /\ d_in[1].title = PyAbsent
    /\ d_in[2].title = TitleBlank
    /\ d_in[3].title = PyStr(<<>>)
    /\ Ids(d_out.out) = <<1, 2, 3>>

(***************************************************************************)
(* The Streamlit search: search_clinical_trials (streamlit_app.py, lines   *)
(* 939-1011) turn by turn over the selected registries, up to the          *)
(* classification.  u_out.trials is results['trials'].                     *)
(***************************************************************************)
\* REGISTRIES (lines 573-590): the status of a registry
StatusOf(registry_id) ==
    CASE registry_id \in {"clinicaltrials_gov", "eu_ctis", "isrctn", "ctri",
                          "anzctr", "drks", "who_ictrp"} -> "operational"
      [] registry_id \in {"jrct", "irct", "tctr"} -> "limited"
      [] OTHER -> "unavailable"

\* the registries the selections of the check are made of
SelectableRegistries == {"clinicaltrials_gov", "who_ictrp", "jrct", "rpcec"}

\* the selections: up to MaxLen registries, none twice, in selection order
Selections ==
    {sel \in SeqsUpTo(SelectableRegistries, MaxLen) :
        \A i, j \in 1..Len(sel) : i # j => sel[i] # sel[j]}

\* the parameters of a search (lines 862-869): the slider of max_results goes
\* from 5 to 50, the phases may all be deselected, the number input of
\* min_enrollment goes up to 5000
SearchParams ==
    [registries : Selections,
     max_results : {5, 15, 50},
     phase_filter : {<<>>, <<"Phase II", "Phase III">>},
     min_enrollment : {50, 2000}]

\* lines 1063-1064 of generate_enhanced_mock_trials: random.choice of an empty
\* list raises IndexError, random.randint of an empty range raises ValueError
GenerationRaises(count, params) ==
    /\ count > 0
    /\ \/ params.phase_filter = <<>>
       \/ Max2(params.min_enrollment, 30) > 1500

\* lines 1052-1092: count trials of the registry
GenerateEnhancedMockTrials(registry_id, count, params) ==
    [raised |-> GenerationRaises(count, params),
     out |-> IF GenerationRaises(count, params) THEN <<>>
             ELSE [i \in 1..count |-> [registry_id |-> registry_id, i |-> i]]]

\* lines 971-976
TrialCount(status, max_results) ==
    IF status = "operational" THEN Min2(max_results, 20)
    ELSE Min2(max_results \div 2, 8)

InitStreamlit ==
    /\ u_pc = "loop"
    /\ u_in \in SearchParams
    /\ u_out = [raised |-> FALSE, trials |-> <<>>, i |-> 1]
    /\ PipeIdle
    /\ DedupIdle

\* lines 958-989: the turn of the loop for one selected registry; an exception
\* of the generation ends the search at line 1003
RegistryTurn ==
    /\ u_pc = "loop"
    /\ u_out.i <= Len(u_in.registries)
    /\ LET registry_id == u_in.registries[u_out.i]
           status == StatusOf(registry_id)
           mock == GenerateEnhancedMockTrials(
                       registry_id, TrialCount(status, u_in.max_results), u_in)
       IN IF status \notin {"operational", "limited"}
          THEN u_out' = [u_out EXCEPT !.i = @ + 1] /\ u_pc' = u_pc
          ELSE IF mock.raised
               THEN u_out' = [u_out EXCEPT !.raised = TRUE] /\ u_pc' = "searched"
               ELSE /\ u_out' = [u_out EXCEPT !.trials = @ \o mock.out, !.i = @ + 1]
                    /\ u_pc' = u_pc
    /\ UNCHANGED <<u_in, pipeVars, dedupVars>>

\* the loop is over: the classification of line 992 comes next
RegistriesDone ==
    /\ u_pc = "loop"
    /\ u_out.i > Len(u_in.registries)
    /\ u_pc' = "searched"
    /\ UNCHANGED <<u_in, u_out, pipeVars, dedupVars>>

NextStreamlit == RegistryTurn \/ RegistriesDone

SpecStreamlit == InitStreamlit /\ [][NextStreamlit]_vars

\* the trials the registries from place n on contribute together
RECURSIVE Contributions(_)
Contributions(n) ==
    IF n > Len(u_in.registries) THEN <<>>
    ELSE LET registry_id == u_in.registries[n]
             status == StatusOf(registry_id)
             count == IF status = "unavailable" THEN 0
                      ELSE TrialCount(status, u_in.max_results)
         IN [i \in 1..count |-> [registry_id |-> registry_id, i |-> i]]
            \o Contributions(n + 1)

\* C30: in the Streamlit search, of the selected registries in selection
\* order an unavailable one contributes no trial, an operational one
\* min(max_results, 20) trials and a limited one min(max_results // 2, 8); the
\* list of trials before the classification is these contributions one after
\* another.
C30_ContributionsByStatus ==
    u_pc = "searched" => u_out.trials = Contributions(1)

=============================================================================
